---- MODULE Spec2Model ----
(***************************************************************************)
(* Model of bereal-date-correcter.py: a driver that copies a fixed set of  *)
(* media files out of timestamp-named folders into one flat directory and  *)
(* rewrites the copies' filesystem times (and optionally EXIF tags).       *)
(*                                                                         *)
(* File and folder names are sequences of one-character strings, so that   *)
(* the regular expression, lower(), stem/suffix splitting and the numeric  *)
(* suffixing are computed as the code computes them.  A path is a sequence *)
(* of names; the filesystem is a function from paths to nodes.             *)
(***************************************************************************)
EXTENDS Integers, Sequences, FiniteSets, TLC

\* ------------------------------------------------------------------ names
FolderA == <<"2", "0", "2", "2", "-", "1", "1", "-", "0", "7", "-", "1", "5", "-", "0", "9", "-", "4", "7">>
FolderB == <<"2", "0", "2", "4", "-", "0", "2", "-", "2", "9", "-", "2", "3", "-", "5", "9", "-", "5", "9">>
FolderNL == <<"2", "0", "2", "2", "-", "1", "1", "-", "0", "7", "-", "1", "5", "-", "0", "9", "-", "4", "7", "\n">>
BadMonth == <<"2", "0", "2", "2", "-", "1", "3", "-", "0", "1", "-", "0", "0", "-", "0", "0", "-", "0", "0">>
BadDay == <<"2", "0", "2", "3", "-", "0", "4", "-", "3", "1", "-", "1", "0", "-", "0", "0", "-", "0", "0">>
NonLeap == <<"2", "0", "2", "3", "-", "0", "2", "-", "2", "9", "-", "1", "2", "-", "0", "0", "-", "0", "0">>
YearZero == <<"0", "0", "0", "0", "-", "0", "1", "-", "0", "1", "-", "0", "0", "-", "0", "0", "-", "0", "0">>
BadName == <<"b", "a", "d", "n", "a", "m", "e">>
TopFile == <<"2", "0", "2", "2", "-", "1", "1", "-", "0", "7", "-", "1", "5", "-", "0", "9", "-", "4", "8">>
OutName == <<"o", "u", "t">>
PrimaryJpg == <<"p", "r", "i", "m", "a", "r", "y", ".", "j", "p", "g">>
MergedUpper == <<"M", "E", "R", "G", "E", "D", ".", "J", "P", "G">>
MergedJpg == <<"m", "e", "r", "g", "e", "d", ".", "j", "p", "g">>
SecondaryJpg == <<"s", "e", "c", "o", "n", "d", "a", "r", "y", ".", "j", "p", "g">>
VideoMp4 == <<"v", "i", "d", "e", "o", ".", "m", "p", "4">>
NotesTxt == <<"n", "o", "t", "e", "s", ".", "t", "x", "t">>
ThumbnailPng == <<"t", "h", "u", "m", "b", "n", "a", "i", "l", ".", "p", "n", "g">>
SrcName == <<"s", "r", "c">>
DstName == <<"d", "s", "t">>
NewName == <<"n", "e", "w">>
GoneName == <<"g", "o", "n", "e">>
PlainName == <<"p", "l", "a", "i", "n">>

\* The characters of the model's names, in code-point order.
Alphabet == <<"\n", "-", ".", "0", "1", "2", "3", "4", "5", "6", "7", "8", "9", "A", "B", "C", "D", "E", "F", "G", "H", "I", "J", "K", "L", "M", "N", "O", "P", "Q", "R", "S", "T", "U", "V", "W", "X", "Y", "Z", "a", "b", "c", "d", "e", "f", "g", "h", "i", "j", "k", "l", "m", "n", "o", "p", "q", "r", "s", "t", "u", "v", "w", "x", "y", "z">>
UpperCase == <<"A", "B", "C", "D", "E", "F", "G", "H", "I", "J", "K", "L", "M", "N", "O", "P", "Q", "R", "S", "T", "U", "V", "W", "X", "Y", "Z">>
LowerCase == <<"a", "b", "c", "d", "e", "f", "g", "h", "i", "j", "k", "l", "m", "n", "o", "p", "q", "r", "s", "t", "u", "v", "w", "x", "y", "z">>
DigitChars == <<"0", "1", "2", "3", "4", "5", "6", "7", "8", "9">>

Ord(c) == CHOOSE k \in 1..Len(Alphabet) : Alphabet[k] = c

IsDigit(c) == \E k \in 1..Len(DigitChars) : DigitChars[k] = c

DigitVal(c) == (CHOOSE k \in 1..Len(DigitChars) : DigitChars[k] = c) - 1

\* str.lower() on one character and on a name
LowerChar(c) ==
    IF \E k \in 1..Len(UpperCase) : UpperCase[k] = c
    THEN LowerCase[CHOOSE k \in 1..Len(UpperCase) : UpperCase[k] = c]
    ELSE c

Lower(name) == [k \in 1..Len(name) |-> LowerChar(name[k])]

\* int() of a run of digits, most significant first
RECURSIVE ToInt(_)
ToInt(ds) ==
    IF ds = <<>> THEN 0
    ELSE 10 * ToInt(SubSeq(ds, 1, Len(ds) - 1)) + DigitVal(ds[Len(ds)])

\* str() of a non-negative integer (the {i} of the f-string)
RECURSIVE IntToStr(_)
IntToStr(n) ==
    IF n < 10 THEN <<DigitChars[n + 1]>>
    ELSE Append(IntToStr(n \div 10), DigitChars[(n % 10) + 1])

\* Order of names under sorted(): code-point lexicographic
NameLess(a, b) ==
    LET m == IF Len(a) < Len(b) THEN Len(a) ELSE Len(b)
    IN  \/ \E k \in 1..m : /\ \A j \in 1..(k - 1) : a[j] = b[j]
                           /\ Ord(a[k]) < Ord(b[k])
        \/ /\ Len(a) < Len(b)
           /\ \A j \in 1..m : a[j] = b[j]

RECURSIVE Sorted(_)
Sorted(S) ==
    IF S = {} THEN <<>>
    ELSE LET least == CHOOSE x \in S : \A y \in S \ {x} : NameLess(x, y)
         IN  <<least>> \o Sorted(S \ {least})

\* ------------------------------------------------- FOLDER_RE and datetime
\* ^(\d{4})-(\d{2})-(\d{2})-(\d{2})-(\d{2})-(\d{2})$ under re.match: "$" also
\* matches just before one newline that ends the string.
FolderMatches(name) ==
    /\ \/ Len(name) = 19
       \/ Len(name) = 20 /\ name[20] = "\n"
    /\ \A k \in 1..19 : IF k \in {5, 8, 11, 14, 17} THEN name[k] = "-"
                        ELSE IsDigit(name[k])

\* y, mo, d, h, mi, s = map(int, m.groups())
Groups(name) ==
    [y  |-> ToInt(SubSeq(name, 1, 4)),   mo |-> ToInt(SubSeq(name, 6, 7)),
     d  |-> ToInt(SubSeq(name, 9, 10)),  h  |-> ToInt(SubSeq(name, 12, 13)),
     mi |-> ToInt(SubSeq(name, 15, 16)), s  |-> ToInt(SubSeq(name, 18, 19))]

IsLeap(y) == y % 4 = 0 /\ (y % 100 # 0 \/ y % 400 = 0)

DaysInMonth(y, mo) ==
    IF mo = 2 THEN (IF IsLeap(y) THEN 29 ELSE 28)
    ELSE IF mo \in {4, 6, 9, 11} THEN 30 ELSE 31

\* (variant: the day is checked against 31 whatever the month)
ValidDateTimeAnyMonth(g) ==
    /\ g.y \in 1..9999
    /\ g.mo \in 1..12
    /\ g.d \in 1..31
    /\ g.h \in 0..23
    /\ g.mi \in 0..59
    /\ g.s \in 0..59

\* datetime(y, mo, d, h, mi, s) raises ValueError outside these ranges
ValidDateTime(g) ==
    /\ g.y \in 1..9999
    /\ g.mo \in 1..12
    /\ g.d \in 1..DaysInMonth(g.y, g.mo)
    /\ g.h \in 0..23
    /\ g.mi \in 0..59
    /\ g.s \in 0..59

ValueError == [error |-> "ValueError"]

\* The result of parse_folder_datetime: ValueError, or the wall-clock fields
\* with the offset of the attached tzinfo (0 for UTC, the host's current
\* offset otherwise).
parse_folder_datetime(folder_name, use_utc, local_offset) ==
    IF ~FolderMatches(folder_name) THEN ValueError
    ELSE LET g == Groups(folder_name)
         IN  IF ~ValidDateTime(g) THEN ValueError
             ELSE [error |-> "none", fields |-> g,
                   offset |-> IF use_utc THEN 0 ELSE local_offset]

RECURSIVE DaysBeforeMonth(_, _)
DaysBeforeMonth(y, mo) ==
    IF mo = 1 THEN 0 ELSE DaysBeforeMonth(y, mo - 1) + DaysInMonth(y, mo - 1)

\* proleptic Gregorian ordinal of a date (day 1 is 0001-01-01)
Ymd2Ord(y, mo, d) ==
    LET p == y - 1
    IN  p * 365 + (p \div 4) - (p \div 100) + (p \div 400) + DaysBeforeMonth(y, mo) + d

\* dt.timestamp() of an aware datetime: seconds since 1970-01-01T00:00:00Z
Timestamp(dt) ==
    LET g == dt.fields
    IN  (Ymd2Ord(g.y, g.mo, g.d) - Ymd2Ord(1970, 1, 1)) * 86400
        + g.h * 3600 + g.mi * 60 + g.s - dt.offset

\* ----------------------------------------------------------------- paths
TARGET_FILES == {MergedJpg, PrimaryJpg, SecondaryJpg, VideoMp4}

\* (variant: the name is compared without lower())
IsTargetExact(name) == name \in TARGET_FILES

\* child.name.lower() in TARGET_FILES
IsTarget(name) == Lower(name) \in TARGET_FILES

Parent(path) == SubSeq(path, 1, Len(path) - 1)

Basename(path) == path[Len(path)]

\* index of the last "." of a name, 0 when there is none (str.rfind + 1)
LastDot(name) ==
    IF \E k \in 1..Len(name) : name[k] = "."
    THEN CHOOSE k \in 1..Len(name) :
             name[k] = "." /\ \A j \in (k + 1)..Len(name) : name[j] # "."
    ELSE 0

\* PurePath.suffix and PurePath.stem
PathSuffix(name) ==
    LET k == LastDot(name)
    IN  IF 1 < k /\ k < Len(name) THEN SubSeq(name, k, Len(name)) ELSE <<>>

PathStem(name) ==
    LET k == LastDot(name)
    IN  IF 1 < k /\ k < Len(name) THEN SubSeq(name, 1, k - 1) ELSE name

\* (variant: the extension is left off the candidate)
CandidateNoSuffix(dest_path, n) ==
    LET name == Basename(dest_path)
    IN  Append(Parent(dest_path), PathStem(name) \o <<"-">> \o IntToStr(n))

\* parent / f"{stem}-{i}{suffix}"
Candidate(dest_path, n) ==
    LET name == Basename(dest_path)
    IN  Append(Parent(dest_path),
               PathStem(name) \o <<"-">> \o IntToStr(n) \o PathSuffix(name))

\* f"{folder_name}-{child.name}"
NewFileName(folder_name, child_name) == folder_name \o <<"-">> \o child_name

\* ------------------------------------------------------------ filesystem
\* A node of the filesystem.  data names the bytes of a file (the path the
\* bytes were first stored under), exif the embedded capture-time tags
\* (<<>> when there are none), whole is FALSE for a truncated copy.
DirNode == [kind |-> "dir", data |-> <<>>, exif |-> <<>>, whole |-> TRUE,
            mtime |-> 0, atime |-> 0]

FileNode(data, exif, whole, mtime, atime) ==
    [kind |-> "file", data |-> data, exif |-> exif, whole |-> whole,
     mtime |-> mtime, atime |-> atime]

\* the host's current UTC offset in seconds: datetime.now().astimezone()
LocalOffsets == {3600, -18000}

\* the wall clock while the tool runs, and the times the source files carry
NowTime == 1800000000

SrcTime == 1500000000

IsDir(f, path) == path \in DOMAIN f /\ f[path].kind = "dir"

IsFile(f, path) == path \in DOMAIN f /\ f[path].kind = "file"

\* (variant: is_dir() where exists() is meant)
ExistsAsDir(f, path) == IsDir(f, path)

\* Path.exists()
Exists(f, path) == path \in DOMAIN f

\* the paths directly inside a directory
Iterdir(f, dir) == {q \in DOMAIN f : Len(q) = Len(dir) + 1 /\ Parent(q) = dir}

Prefixes(path) == {SubSeq(path, 1, n) : n \in 1..Len(path)}

\* Path.mkdir(parents=True, exist_ok=True): an error when the path or one of
\* its ancestors is a regular file, otherwise every missing directory of the
\* chain is created.
MkdirFailsOn(f, path) == \E q \in Prefixes(path) : IsFile(f, q)

MkdirP(f, path) ==
    [q \in DOMAIN f \cup Prefixes(path) |-> IF q \in DOMAIN f THEN f[q] ELSE DirNode]

\* f with the node at path set (created or replaced)
Put(f, path, node) ==
    [q \in DOMAIN f \cup {path} |-> IF q = path THEN node ELSE f[q]]

\* ------------------------------------------------------------- variables
VARIABLES
    fs,           \* the filesystem
    fs0,          \* the filesystem before the first invocation (history)
    args,         \* [source_dir, dest_dir, use_utc, write_exif]
    env,          \* [offset: host UTC offset, piexif: library importable,
                  \*  atime_on_read: the mount records reads,
                  \*  plan: how many times the user runs the tool]
    pc,           \* position of each invocation in main
    copied, skipped,
    entries,      \* names of sorted(source_dir.iterdir()) not yet visited
    folder_name, dt,
    children,     \* names of entry.iterdir() not yet visited
    child,
    dest_path, i, \* ensure_unique_path's parameter and probe counter
    out_path,
    updated,      \* result of the last update_exif_datetime
    summary,      \* the printed "Done." line: <<copied, skipped>>, or <<>>
    exit_msg,     \* the path named by SystemExit, or <<>>
    exc,          \* the call that raised out of main, or ""
    before,       \* the filesystem when the current invocation started (history)
    runs,         \* invocations started so far
    created,      \* the copies the current invocation has made (history)
    returned,     \* every result of ensure_unique_path, in order (history)
    ncopied       \* copies counted by all invocations so far (history)

locals == <<copied, skipped, entries, folder_name, dt, children, child,
            dest_path, i, out_path, updated, summary, exit_msg, exc, before, runs,
            created>>

vars == <<fs, fs0, args, env, pc, locals, returned, ncopied>>

Procs == DOMAIN pc

\* ------------------------------------------------------- initial states
MaxTop == 2     \* top-level entries of the source directory
MaxPre == 2     \* files already in the destination
MaxRuns == 3    \* successive invocations on the same arguments

SrcDir == <<SrcName>>
DstDir == <<DstName>>

TopDirs == {FolderA, FolderB, FolderNL, BadMonth, BadDay, NonLeap, YearZero, BadName}
TopFiles == {TopFile}

Kid(name, kind) == [name |-> name, kind |-> kind]

OneKid == {Kid(PrimaryJpg, "file")}

KidSets ==
    { OneKid,
      {Kid(MergedUpper, "file"), Kid(NotesTxt, "file")},
      {Kid(SecondaryJpg, "file"), Kid(VideoMp4, "dir"), Kid(ThumbnailPng, "file")} }

\* the children of the folders whose children are not varied
FixedKids(t) ==
    IF t = FolderB THEN {Kid(VideoMp4, "file"), Kid(NotesTxt, "file")} ELSE OneKid

\* A source tree: the chosen top-level entries, and the children of each
\* directory among them.
TreePaths(tops, kids) ==
    {SrcDir} \cup {<<SrcName, t>> : t \in tops}
    \cup UNION {{<<SrcName, t, k.name>> : k \in kids[t]} : t \in tops \cap TopDirs}

TreeNode(path, kids) ==
    IF Len(path) = 1 THEN DirNode
    ELSE IF Len(path) = 2
         THEN IF path[2] \in TopDirs THEN DirNode
              ELSE FileNode(path, <<>>, TRUE, SrcTime, SrcTime)
    ELSE LET k == CHOOSE k \in kids[path[2]] : k.name = path[3]
         IN  IF k.kind = "dir" THEN DirNode
             ELSE FileNode(path, <<>>, TRUE, SrcTime, SrcTime)

Tree(tops, kids) ==
    [q \in {<<>>} \cup TreePaths(tops, kids) |->
        IF q = <<>> THEN DirNode ELSE TreeNode(q, kids)]

\* a filesystem with further regular files, each holding bytes of its own
WithFiles(f, paths) ==
    [q \in DOMAIN f \cup paths |->
        IF q \in DOMAIN f THEN f[q] ELSE FileNode(q, <<>>, TRUE, SrcTime, SrcTime)]

WithDirs(f, paths) ==
    [q \in DOMAIN f \cup paths |-> IF q \in DOMAIN f THEN f[q] ELSE DirNode]

Args(s, d, u, x) == [source_dir |-> s, dest_dir |-> d, use_utc |-> u, write_exif |-> x]

\* The host: its UTC offset is varied only for a local-time run, the
\* library only for a run that writes EXIF tags, and the mount's recording
\* of reads only where the library reads.
Envs(a, plans) ==
    {e \in [offset : LocalOffsets, piexif : BOOLEAN, atime_on_read : BOOLEAN,
             plan : plans] :
        /\ (a.use_utc \/ a.write_exif) => e.offset = 3600
        /\ ~a.write_exif => ~e.piexif
        /\ ~e.piexif => ~e.atime_on_read}

Scenario(f, a, e) == fs = f /\ fs0 = f /\ args = a /\ env = e

\* Filtering: any small source tree (the children of one folder varied),
\* copied into an existing empty directory.
InitFilter ==
    \E tops \in {T \in SUBSET (TopDirs \cup TopFiles) : Cardinality(T) \in 1..MaxTop} :
      \E kids \in [tops \cap TopDirs -> KidSets] :
        \E a \in {Args(SrcDir, DstDir, u, x) : u \in BOOLEAN, x \in BOOLEAN} :
          \E e \in Envs(a, {1}) :
            /\ \A t \in DOMAIN kids : t # FolderA => kids[t] = FixedKids(t)
            /\ Scenario(WithDirs(Tree(tops, kids), {DstDir}), a, e)

\* Repetition: one folder, copied up to MaxRuns times into a directory that
\* may already hold some of the names the allocator will ask for.
RerunTree == Tree({FolderA}, (FolderA :> OneKid))

Desired0 == Append(DstDir, NewFileName(FolderA, PrimaryJpg))

PreNames == {Desired0} \cup {Candidate(Desired0, n) : n \in 1..(MaxPre + 1)}

InitRerun ==
    \E pre \in {P \in SUBSET PreNames : Cardinality(P) <= MaxPre} :
      \E a \in {Args(SrcDir, DstDir, TRUE, x) : x \in BOOLEAN} :
        \E e \in Envs(a, 1..MaxRuns) :
          Scenario(WithFiles(WithDirs(RerunTree, {DstDir}), pre), a, e)

\* Twice: two folders with three qualifying files between them, copied once
\* or twice into an empty or a missing directory.
TwiceTree ==
    Tree({FolderA, FolderB},
         (FolderA :> {Kid(PrimaryJpg, "file"), Kid(MergedUpper, "file")})
         @@ (FolderB :> FixedKids(FolderB)))

InitTwice ==
    \E d \in {DstDir, <<NewName, OutName>>} :
      \E a \in {Args(SrcDir, d, TRUE, x) : x \in BOOLEAN} :
        \E e \in Envs(a, 1..2) :
          Scenario(WithDirs(TwiceTree, {DstDir}), a, e)

\* Startup: the source is missing or a regular file, or the destination is
\* missing, or is (or lies below) a regular file.
InitStartup ==
    \E s \in {SrcDir, <<GoneName>>, <<PlainName>>} :
      \E d \in {DstDir, <<NewName, OutName>>, <<PlainName>>, <<PlainName, OutName>>} :
        \E e \in Envs(Args(s, d, TRUE, FALSE), {1}) :
          /\ s = SrcDir => d # DstDir
          /\ Scenario(WithFiles(WithDirs(RerunTree, {DstDir}), {<<PlainName>>}),
                      Args(s, d, TRUE, FALSE), e)

\* Overlap: the destination is the source directory or lies inside it.
InitOverlap ==
    \E d \in {SrcDir, <<SrcName, OutName>>, <<SrcName, FolderA>>} :
      \E e \in Envs(Args(SrcDir, d, TRUE, FALSE), 1..2) :
        Scenario(RerunTree, Args(SrcDir, d, TRUE, FALSE), e)

InitProcs(P) ==
    /\ pc = [p \in P |-> "start"]
    /\ copied = [p \in P |-> 0]
    /\ skipped = [p \in P |-> 0]
    /\ entries = [p \in P |-> <<>>]
    /\ folder_name = [p \in P |-> <<>>]
    /\ dt = [p \in P |-> ValueError]
    /\ children = [p \in P |-> {}]
    /\ child = [p \in P |-> <<>>]
    /\ dest_path = [p \in P |-> <<>>]
    /\ i = [p \in P |-> 0]
    /\ out_path = [p \in P |-> <<>>]
    /\ updated = [p \in P |-> FALSE]
    /\ summary = [p \in P |-> <<>>]
    /\ exit_msg = [p \in P |-> <<>>]
    /\ exc = [p \in P |-> ""]
    /\ before = [p \in P |-> fs]
    /\ runs = [p \in P |-> 1]
    /\ created = [p \in P |-> {}]
    /\ returned = <<>>
    /\ ncopied = 0

\* One invocation at a time: the tool as it is meant to be used.
Init ==
    /\ InitFilter \/ InitRerun \/ InitTwice \/ InitStartup \/ InitOverlap
    /\ InitProcs({1})

\* Two invocations started side by side on the same arguments (or one, for
\* comparison): a folder to copy from, entries to reject, and a destination
\* that may hold the first name asked for.
ConcTree ==
    Tree({FolderA, BadMonth, BadName, NotesTxt},
         (FolderA :> {Kid(SecondaryJpg, "file"), Kid(VideoMp4, "dir"),
                      Kid(ThumbnailPng, "file")})
         @@ (BadMonth :> OneKid) @@ (BadName :> OneKid))

ConcDesired == Append(DstDir, NewFileName(FolderA, SecondaryJpg))

InitConc ==
    /\ \/ \E pre \in {{}, {ConcDesired}, {Candidate(ConcDesired, 1)}} :
            \E a \in {Args(SrcDir, DstDir, TRUE, x) : x \in BOOLEAN} :
              \E e \in Envs(a, 1..2) :
                Scenario(WithFiles(WithDirs(ConcTree, {DstDir}), pre), a, e)
       \/ InitStartup
    /\ \E P \in {{1}, {1, 2}} : InitProcs(P) /\ (P # {1} => env.plan = 1)

\* --------------------------------------------------------------- actions
Set(v, p, x) == [v EXCEPT ![p] = x]

EntryPath(name) == Append(args.source_dir, name)

ChildPath(p, c) == Append(EntryPath(folder_name[p]), c)

\* dest_dir.mkdir(parents=True, exist_ok=True)
MkdirDest(p) ==
    /\ pc[p] = "start"
    /\ ~MkdirFailsOn(fs, args.dest_dir)
    /\ fs' = MkdirP(fs, args.dest_dir)
    /\ pc' = Set(pc, p, "check")
    /\ UNCHANGED <<fs0, args, env, locals, returned, ncopied>>

\* ... raises FileExistsError or NotADirectoryError, which nothing catches
MkdirRaises(p) ==
    /\ pc[p] = "start"
    /\ MkdirFailsOn(fs, args.dest_dir)
    /\ pc' = Set(pc, p, "raised")
    /\ exc' = Set(exc, p, "mkdir")
    /\ UNCHANGED <<fs, fs0, args, env, copied, skipped, entries, folder_name, dt,
                   children, child, dest_path, i, out_path, updated, summary,
                   exit_msg, before, runs, created, returned, ncopied>>

\* if not source_dir.is_dir(): raise SystemExit(...)
SourceNotDir(p) ==
    /\ pc[p] = "check"
    /\ ~IsDir(fs, args.source_dir)
    /\ pc' = Set(pc, p, "exit")
    /\ exit_msg' = Set(exit_msg, p, args.source_dir)
    /\ exc' = Set(exc, p, "SystemExit")
    /\ UNCHANGED <<fs, fs0, args, env, copied, skipped, entries, folder_name, dt,
                   children, child, dest_path, i, out_path, updated, summary,
                   before, runs, created, returned, ncopied>>

\* copied = 0; skipped = 0; for entry in sorted(source_dir.iterdir()):
BeginLoop(p) ==
    /\ pc[p] = "check"
    /\ IsDir(fs, args.source_dir)
    /\ copied' = Set(copied, p, 0)
    /\ skipped' = Set(skipped, p, 0)
    /\ entries' = Set(entries, p, Sorted({Basename(q) : q \in Iterdir(fs, args.source_dir)}))
    /\ pc' = Set(pc, p, "loop")
    /\ UNCHANGED <<fs, fs0, args, env, folder_name, dt, children, child, dest_path,
                   i, out_path, updated, summary, exit_msg, exc, before, runs, created, returned, ncopied>>

AtEntry(p) == pc[p] = "loop" /\ entries[p] # <<>>

\* if not entry.is_dir(): continue
SkipNonDir(p) ==
    /\ AtEntry(p)
    /\ ~IsDir(fs, EntryPath(Head(entries[p])))
    /\ entries' = Set(entries, p, Tail(entries[p]))
    /\ UNCHANGED <<fs, fs0, args, env, pc, copied, skipped, folder_name, dt,
                   children, child, dest_path, i, out_path, updated, summary,
                   exit_msg, exc, before, runs, created, returned, ncopied>>

\* if not FOLDER_RE.match(folder_name): skipped += 1; continue
SkipNoMatch(p) ==
    /\ AtEntry(p)
    /\ IsDir(fs, EntryPath(Head(entries[p])))
    /\ ~FolderMatches(Head(entries[p]))
    /\ skipped' = Set(skipped, p, skipped[p] + 1)
    /\ folder_name' = Set(folder_name, p, Head(entries[p]))
    /\ entries' = Set(entries, p, Tail(entries[p]))
    /\ UNCHANGED <<fs, fs0, args, env, pc, copied, dt, children, child, dest_path,
                   i, out_path, updated, summary, exit_msg, exc, before, runs, created, returned, ncopied>>

\* except ValueError: skipped += 1; continue
SkipBadDate(p) ==
    /\ AtEntry(p)
    /\ IsDir(fs, EntryPath(Head(entries[p])))
    /\ FolderMatches(Head(entries[p]))
    /\ parse_folder_datetime(Head(entries[p]), args.use_utc, env.offset) = ValueError
    /\ skipped' = Set(skipped, p, skipped[p] + 1)
    /\ folder_name' = Set(folder_name, p, Head(entries[p]))
    /\ entries' = Set(entries, p, Tail(entries[p]))
    /\ UNCHANGED <<fs, fs0, args, env, pc, copied, dt, children, child, dest_path,
                   i, out_path, updated, summary, exit_msg, exc, before, runs, created, returned, ncopied>>

\* dt = parse_folder_datetime(...); for child in entry.iterdir():
EnterFolder(p) ==
    /\ AtEntry(p)
    /\ IsDir(fs, EntryPath(Head(entries[p])))
    /\ FolderMatches(Head(entries[p]))
    /\ parse_folder_datetime(Head(entries[p]), args.use_utc, env.offset) # ValueError
    /\ folder_name' = Set(folder_name, p, Head(entries[p]))
    /\ dt' = Set(dt, p, parse_folder_datetime(Head(entries[p]), args.use_utc, env.offset))
    /\ children' = Set(children, p,
                       {Basename(q) : q \in Iterdir(fs, EntryPath(Head(entries[p])))})
    /\ entries' = Set(entries, p, Tail(entries[p]))
    /\ pc' = Set(pc, p, "files")
    /\ UNCHANGED <<fs, fs0, args, env, copied, skipped, child, dest_path, i,
                   out_path, updated, summary, exit_msg, exc, before, runs, created, returned, ncopied>>

\* if not child.is_file(): continue
IgnoreNonFile(p) ==
    /\ pc[p] = "files"
    /\ \E c \in children[p] :
         /\ ~IsFile(fs, ChildPath(p, c))
         /\ children' = Set(children, p, children[p] \ {c})
    /\ UNCHANGED <<fs, fs0, args, env, pc, copied, skipped, entries, folder_name, dt,
                   child, dest_path, i, out_path, updated, summary, exit_msg, exc, before, runs,
                   created, returned, ncopied>>

\* if child.name.lower() not in TARGET_FILES: continue
IgnoreNonTarget(p) ==
    /\ pc[p] = "files"
    /\ \E c \in children[p] :
         /\ IsFile(fs, ChildPath(p, c))
         /\ ~IsTarget(c)
         /\ children' = Set(children, p, children[p] \ {c})
    /\ UNCHANGED <<fs, fs0, args, env, pc, copied, skipped, entries, folder_name, dt,
                   child, dest_path, i, out_path, updated, summary, exit_msg, exc, before, runs,
                   created, returned, ncopied>>

Qualifies(p, c) == IsFile(fs, ChildPath(p, c)) /\ IsTarget(c)

DesiredPath(p, c) == Append(args.dest_dir, NewFileName(folder_name[p], c))

\* one call of ensure_unique_path, as the history records it
Returned(p, asked, got) == [by |-> p, asked |-> asked, got |-> got]

\* ensure_unique_path: if not dest_path.exists(): return dest_path
AllocDesired(p) ==
    /\ pc[p] = "files"
    /\ \E c \in children[p] :
         /\ Qualifies(p, c)
         /\ ~Exists(fs, DesiredPath(p, c))
         /\ child' = Set(child, p, c)
         /\ children' = Set(children, p, children[p] \ {c})
         /\ dest_path' = Set(dest_path, p, DesiredPath(p, c))
         /\ out_path' = Set(out_path, p, DesiredPath(p, c))
         /\ returned' = Append(returned, Returned(p, DesiredPath(p, c), DesiredPath(p, c)))
    /\ pc' = Set(pc, p, "copy")
    /\ UNCHANGED <<fs, fs0, args, env, copied, skipped, entries, folder_name, dt,
                   i, updated, summary, exit_msg, exc, before, runs, created, ncopied>>

\* ensure_unique_path: dest_path exists; i = 1
AllocCollides(p) ==
    /\ pc[p] = "files"
    /\ \E c \in children[p] :
         /\ Qualifies(p, c)
         /\ Exists(fs, DesiredPath(p, c))
         /\ child' = Set(child, p, c)
         /\ children' = Set(children, p, children[p] \ {c})
         /\ dest_path' = Set(dest_path, p, DesiredPath(p, c))
    /\ i' = Set(i, p, 1)
    /\ pc' = Set(pc, p, "probe")
    /\ UNCHANGED <<fs, fs0, args, env, copied, skipped, entries, folder_name, dt,
                   out_path, updated, summary, exit_msg, exc, before, runs, created, returned, ncopied>>

\* if not candidate.exists(): return candidate
ProbeFree(p) ==
    /\ pc[p] = "probe"
    /\ ~Exists(fs, Candidate(dest_path[p], i[p]))
    /\ out_path' = Set(out_path, p, Candidate(dest_path[p], i[p]))
    /\ returned' = Append(returned,
                          Returned(p, dest_path[p], Candidate(dest_path[p], i[p])))
    /\ pc' = Set(pc, p, "copy")
    /\ UNCHANGED <<fs, fs0, args, env, copied, skipped, entries, folder_name, dt,
                   children, child, dest_path, i, updated, summary, exit_msg, exc, before, runs,
                   created, ncopied>>

\* i += 1
ProbeNext(p) ==
    /\ pc[p] = "probe"
    /\ Exists(fs, Candidate(dest_path[p], i[p]))
    /\ i' = Set(i, p, i[p] + 1)
    /\ UNCHANGED <<fs, fs0, args, env, pc, copied, skipped, entries, folder_name, dt,
                   children, child, dest_path, out_path, updated, summary, exit_msg, exc, before,
                   runs, created, returned, ncopied>>

\* shutil.copy2(child, out_path): the bytes and, by copystat, the times of
\* the source file; an existing file at out_path is replaced
CopyFile(p) ==
    /\ pc[p] = "copy"
    /\ LET src == fs[ChildPath(p, child[p])]
       IN  fs' = Put(fs, out_path[p],
                     FileNode(src.data, src.exif, TRUE, src.mtime, src.atime))
    /\ created' = Set(created, p, created[p] \cup
                      {[path |-> out_path[p], folder |-> folder_name[p], child |-> child[p]]})
    /\ pc' = Set(pc, p, "utime")
    /\ UNCHANGED <<fs0, args, env, copied, skipped, entries, folder_name, dt,
                   children, child, dest_path, i, out_path, updated, summary,
                   exit_msg, exc, before, runs, returned, ncopied>>

\* (variant: the error is caught and the loop goes on with the next file)
CopyRaisesCaught(p) ==
    /\ pc[p] = "copy"
    /\ pc' = Set(pc, p, "files")
    /\ exc' = Set(exc, p, "copy2")
    /\ UNCHANGED <<fs, fs0, args, env, copied, skipped, entries, folder_name, dt,
                   children, child, dest_path, i, out_path, updated, summary,
                   exit_msg, before, runs, created, returned, ncopied>>

\* ... raises OSError: before out_path was opened for writing, or part way
\* through the bytes, leaving a truncated file behind
CopyRaises(p) ==
    /\ pc[p] = "copy"
    /\ LET src == fs[ChildPath(p, child[p])]
       IN  \E f \in {fs, Put(fs, out_path[p],
                             FileNode(src.data, <<>>, FALSE, NowTime, NowTime))} :
               fs' = f
    /\ pc' = Set(pc, p, "raised")
    /\ exc' = Set(exc, p, "copy2")
    /\ UNCHANGED <<fs0, args, env, copied, skipped, entries, folder_name, dt,
                   children, child, dest_path, i, out_path, updated, summary,
                   exit_msg, before, runs, created, returned, ncopied>>

\* the access time of a file after piexif has read it
AfterRead(atime) == IF env.atime_on_read THEN NowTime ELSE atime

\* what follows the timestamp write: the metadata write, or copied += 1
AfterTimes(write_exif) == IF write_exif THEN "exif" ELSE "files"

\* set_fs_times(out_path, dt): os.utime(path, (ts, ts))
\* without --exif the iteration ends here: copied += 1
SetTimes(p) ==
    /\ pc[p] = "utime"
    /\ LET ts == Timestamp(dt[p])
       IN  fs' = Put(fs, out_path[p], [fs[out_path[p]] EXCEPT !.mtime = ts, !.atime = ts])
    /\ pc' = Set(pc, p, AfterTimes(args.write_exif))
    /\ copied' = Set(copied, p, IF args.write_exif THEN copied[p] ELSE copied[p] + 1)
    /\ ncopied' = IF args.write_exif THEN ncopied ELSE ncopied + 1
    /\ UNCHANGED <<fs0, args, env, skipped, entries, folder_name, dt, children,
                   child, dest_path, i, out_path, updated, summary, exit_msg, exc, before, runs,
                   created, returned>>

\* ... os.utime raises OSError, which nothing catches
SetTimesRaises(p) ==
    /\ pc[p] = "utime"
    /\ pc' = Set(pc, p, "raised")
    /\ exc' = Set(exc, p, "utime")
    /\ UNCHANGED <<fs, fs0, args, env, copied, skipped, entries, folder_name, dt,
                   children, child, dest_path, i, out_path, updated, summary,
                   exit_msg, before, runs, created, returned, ncopied>>

\* the end of an iteration with --exif: updated = ...; copied += 1
ExifReturns(p, result) ==
    /\ updated' = Set(updated, p, result)
    /\ copied' = Set(copied, p, copied[p] + 1)
    /\ ncopied' = ncopied + 1
    /\ pc' = Set(pc, p, "files")
    /\ UNCHANGED <<fs0, args, env, skipped, entries, folder_name, dt, children,
                   child, dest_path, i, out_path, summary, exit_msg, exc, before, runs, created,
                   returned>>

\* update_exif_datetime: import piexif raises ImportError; return False
ExifUnavailable(p) ==
    /\ pc[p] = "exif"
    /\ ~env.piexif
    /\ ExifReturns(p, FALSE)
    /\ UNCHANGED fs

\* (variant: the exception leaves update_exif_datetime)
ExifFailsRaises(p) ==
    /\ pc[p] = "exif"
    /\ env.piexif
    /\ pc' = Set(pc, p, "raised")
    /\ exc' = Set(exc, p, "piexif")
    /\ UNCHANGED <<fs, fs0, args, env, copied, skipped, entries, folder_name, dt,
                   children, child, dest_path, i, out_path, updated, summary,
                   exit_msg, before, runs, created, returned, ncopied>>

\* update_exif_datetime: piexif.load (or a later call) raises; return False.
\* Reading the file moves its access time on a mount that records reads.
ExifFails(p) ==
    /\ pc[p] = "exif"
    /\ env.piexif
    /\ fs' = Put(fs, out_path[p],
                 [fs[out_path[p]] EXCEPT !.atime = AfterRead(fs[out_path[p]].atime)])
    /\ ExifReturns(p, FALSE)

\* the three tags, from dt.strftime("%Y:%m:%d %H:%M:%S"): the wall-clock fields
ExifTags(d) ==
    <<d.fields.y, d.fields.mo, d.fields.d, d.fields.h, d.fields.mi, d.fields.s>>

\* update_exif_datetime: piexif.insert rewrites the file in place, which
\* sets its modification time to the time of the write; return True
ExifUpdated(p) ==
    /\ pc[p] = "exif"
    /\ env.piexif
    /\ fs' = Put(fs, out_path[p],
                 [fs[out_path[p]] EXCEPT !.exif = ExifTags(dt[p]),
                                         !.mtime = NowTime,
                                         !.atime = AfterRead(fs[out_path[p]].atime)])
    /\ ExifReturns(p, TRUE)

\* the inner loop is exhausted
LeaveFolder(p) ==
    /\ pc[p] = "files"
    /\ children[p] = {}
    /\ pc' = Set(pc, p, "loop")
    /\ UNCHANGED <<fs, fs0, args, env, copied, skipped, entries, folder_name, dt,
                   children, child, dest_path, i, out_path, updated, summary,
                   exit_msg, exc, before, runs, created, returned, ncopied>>

\* print(f"Done. Copied: {copied}, Skipped folders ...: {skipped}")
Finish(p) ==
    /\ pc[p] = "loop"
    /\ entries[p] = <<>>
    /\ summary' = Set(summary, p, <<copied[p], skipped[p]>>)
    /\ pc' = Set(pc, p, "done")
    /\ UNCHANGED <<fs, fs0, args, env, copied, skipped, entries, folder_name, dt,
                   children, child, dest_path, i, out_path, updated, exit_msg, exc, before, runs,
                   created, returned, ncopied>>

\* the user runs the tool again with the same arguments: a fresh process
Rerun(p) ==
    /\ pc[p] = "done"
    /\ runs[p] < env.plan
    /\ runs' = Set(runs, p, runs[p] + 1)
    /\ pc' = Set(pc, p, "start")
    /\ copied' = Set(copied, p, 0)
    /\ skipped' = Set(skipped, p, 0)
    /\ folder_name' = Set(folder_name, p, <<>>)
    /\ dt' = Set(dt, p, ValueError)
    /\ child' = Set(child, p, <<>>)
    /\ dest_path' = Set(dest_path, p, <<>>)
    /\ i' = Set(i, p, 0)
    /\ out_path' = Set(out_path, p, <<>>)
    /\ updated' = Set(updated, p, FALSE)
    /\ summary' = Set(summary, p, <<>>)
    /\ created' = Set(created, p, {})
    /\ before' = Set(before, p, fs)
    /\ UNCHANGED <<fs, fs0, args, env, entries, children, exit_msg, exc, returned,
                   ncopied>>

Next ==
    \/ \E p \in Procs : MkdirDest(p)
    \/ \E p \in Procs : MkdirRaises(p)
    \/ \E p \in Procs : SourceNotDir(p)
    \/ \E p \in Procs : BeginLoop(p)
    \/ \E p \in Procs : SkipNonDir(p)
    \/ \E p \in Procs : SkipNoMatch(p)
    \/ \E p \in Procs : SkipBadDate(p)
    \/ \E p \in Procs : EnterFolder(p)
    \/ \E p \in Procs : IgnoreNonFile(p)
    \/ \E p \in Procs : IgnoreNonTarget(p)
    \/ \E p \in Procs : AllocDesired(p)
    \/ \E p \in Procs : AllocCollides(p)
    \/ \E p \in Procs : ProbeFree(p)
    \/ \E p \in Procs : ProbeNext(p)
    \/ \E p \in Procs : CopyFile(p)
    \/ \E p \in Procs : CopyRaises(p)
    \/ \E p \in Procs : SetTimes(p)
    \/ \E p \in Procs : SetTimesRaises(p)
    \/ \E p \in Procs : ExifUnavailable(p)
    \/ \E p \in Procs : ExifFails(p)
    \/ \E p \in Procs : ExifUpdated(p)
    \/ \E p \in Procs : LeaveFolder(p)
    \/ \E p \in Procs : Finish(p)
    \/ \E p \in Procs : Rerun(p)

Spec == Init /\ [][Next]_vars

SpecConc == InitConc /\ [][Next]_vars

\* A running invocation keeps running: the interpreter executes the next
\* statement of a single-threaded program.
SpecFair == Init /\ [][Next]_vars /\ WF_vars(Next)

\* ------------------------------------------------------------ properties
\* The statements below are written from the claims, with their own reading
\* of "qualifying file", "rejected directory" and "suffixed name".

InDest(f) == {q \in DOMAIN f : Len(q) = Len(args.dest_dir) + 1 /\ Parent(q) = args.dest_dir}

FilesInDest(f) == {q \in InDest(f) : f[q].kind = "file"}

UnderSource(q) ==
    /\ Len(q) > Len(args.source_dir)
    /\ SubSeq(q, 1, Len(args.source_dir)) = args.source_dir

MonthDays(y, mo) ==
    IF mo \in {1, 3, 5, 7, 8, 10, 12} THEN 31
    ELSE IF mo \in {4, 6, 9, 11} THEN 30
    ELSE IF (y % 4 = 0 /\ y % 100 # 0) \/ y % 400 = 0 THEN 29 ELSE 28

PossibleDate(name) ==
    LET g == Groups(name)
    IN  /\ g.y >= 1 /\ g.mo >= 1 /\ g.mo <= 12
        /\ g.d >= 1 /\ g.d <= MonthDays(g.y, g.mo)
        /\ g.h <= 23 /\ g.mi <= 59 /\ g.s <= 59

\* a directory name the driver must skip
Rejected(name) == ~FolderMatches(name) \/ ~PossibleDate(name)

RejectedDirs(f) ==
    {q \in DOMAIN f : /\ Len(q) = Len(args.source_dir) + 1
                      /\ Parent(q) = args.source_dir
                      /\ f[q].kind = "dir"
                      /\ Rejected(Basename(q))}

\* the regular files of the target set directly inside accepted folders
QualifyingFiles(f) ==
    {q \in DOMAIN f : /\ Len(q) = Len(args.source_dir) + 2
                      /\ Parent(Parent(q)) = args.source_dir
                      /\ f[q].kind = "file"
                      /\ Lower(Basename(q)) \in {MergedJpg, PrimaryJpg, SecondaryJpg, VideoMp4}
                      /\ f[Parent(q)].kind = "dir"
                      /\ ~Rejected(Basename(Parent(q)))}

\* <dest>/<folder-name>-<original filename> of a source file
NamedAfter(q) ==
    Append(args.dest_dir, q[Len(q) - 1] \o <<"-">> \o q[Len(q)])

\* a path with -k inserted before the extension
Suffixed(path, k) ==
    Append(Parent(path),
           PathStem(Basename(path)) \o <<"-">> \o IntToStr(k) \o PathSuffix(Basename(path)))

\* C1 (single writer): a copy step leaves every file that was in the
\* destination before it in place and unchanged; an invocation leaves every
\* file that was there when it started unchanged; and a second run on the
\* same source into an initially empty destination ends with exactly the
\* first run's names plus each of them with -1 before the extension.
C1_CopyKeeps ==
    \A p \in Procs :
        (pc[p] = "copy" /\ pc'[p] # "copy") =>
            \A q \in InDest(fs) : q \in DOMAIN fs' /\ fs'[q] = fs[q]

C1_RunKeeps ==
    \A p \in Procs :
        \A q \in InDest(before[p]) : q \in DOMAIN fs /\ fs[q] = before[p][q]

C1_SecondRun ==
    \A p \in Procs :
        (runs[p] = 2 /\ pc[p] = "done" /\ InDest(fs0) = {}) =>
            LET first == {NamedAfter(q) : q \in QualifyingFiles(fs0)}
            IN  /\ InDest(fs) = first \cup {Suffixed(q, 1) : q \in first}
                /\ {c.path : c \in created[p]} = {Suffixed(q, 1) : q \in first}
                /\ Cardinality(InDest(fs)) = 2 * Cardinality(QualifyingFiles(fs0))

\* C1: no existing destination file is ever replaced or changed, and a
\* second run into an initially empty destination adds exactly the -1 names.
C1_NoOverwrite == [](C1_RunKeeps /\ C1_SecondRun) /\ [][C1_CopyKeeps]_vars

C1_Witness ==
    \E p \in Procs :
        /\ runs[p] = 2 /\ pc[p] = "done" /\ InDest(fs0) = {}
        /\ created[p] # {}

\* C2: when a run completes, every file it created has its access and
\* modification times equal to the instant resolved from the name of the
\* folder it was copied from, whatever the flags.
FolderInstant(folder) ==
    Timestamp(parse_folder_datetime(folder, args.use_utc, env.offset))

\* C2: at the end of a run every created file carries its folder's instant
\* as access and modification time, under every combination of flags.
C2_TimesFromFolder ==
    \A p \in Procs :
        pc[p] = "done" =>
            \A c \in created[p] :
                /\ fs[c.path].mtime = FolderInstant(c.folder)
                /\ fs[c.path].atime = FolderInstant(c.folder)

\* C3: at the normal end of a run, copied is the number of qualifying files
\* of the source (whatever the case of their names) and the number of files
\* the run created in the destination; each created file is named after its
\* folder and source file, possibly with a numeric suffix; nothing else is
\* copied or counted.
NewFiles(p) == FilesInDest(fs) \ DOMAIN before[p]

\* C3: copied = number of qualifying source files = number of files created,
\* each named <folder>-<file> with an optional numeric suffix.
C3_Copied ==
    \A p \in Procs :
        pc[p] = "done" =>
            /\ copied[p] = Cardinality(QualifyingFiles(fs0))
            /\ copied[p] = Cardinality(NewFiles(p))
            /\ summary[p][1] = copied[p]
            /\ NewFiles(p) = {c.path : c \in created[p]}
            /\ {<<c.folder, c.child>> : c \in created[p]}
                   = {<<q[Len(q) - 1], q[Len(q)]>> : q \in QualifyingFiles(fs0)}
            /\ \A c \in created[p] :
                   LET want == NamedAfter(<<c.folder, c.child>>)
                   IN  \/ c.path = want
                       \/ \E k \in 1..Cardinality(DOMAIN fs) : c.path = Suffixed(want, k)

C3_Witness ==
    \E p \in Procs :
        /\ pc[p] = "done"
        /\ \E c \in created[p] : c.child = MergedUpper
        /\ \E q \in DOMAIN fs0 : UnderSource(q) /\ Basename(q) = NotesTxt /\ Len(q) = 3
        /\ copied[p] = 1

\* C4: a non-directory entry changes neither counter; a rejected directory
\* adds exactly one to skipped, is never entered, adds nothing to copied or
\* to the destination, and the run goes on; at the end skipped is the number
\* of rejected directories.
C4_Step ==
    \A p \in Procs :
        (pc[p] = "loop" /\ entries[p] # <<>>) =>
            LET e == Append(args.source_dir, Head(entries[p]))
            IN  /\ fs[e].kind # "dir" =>
                      /\ copied'[p] = copied[p] /\ skipped'[p] = skipped[p]
                      /\ pc'[p] = "loop" /\ entries'[p] = Tail(entries[p])
                      /\ fs' = fs
                /\ (fs[e].kind = "dir" /\ Rejected(Head(entries[p]))) =>
                      /\ copied'[p] = copied[p] /\ skipped'[p] = skipped[p] + 1
                      /\ pc'[p] = "loop" /\ entries'[p] = Tail(entries[p])
                      /\ fs' = fs

C4_Final ==
    \A p \in Procs :
        pc[p] = "done" =>
            /\ skipped[p] = Cardinality(RejectedDirs(fs))
            /\ summary[p][2] = skipped[p]
            /\ \A c \in created[p] :
                   /\ ~Rejected(c.folder)
                   /\ IsDir(fs, Append(args.source_dir, c.folder))

LastCall == returned'[Len(returned')]

C5_Call ==
    returned' # returned =>
        /\ LastCall.got \notin DOMAIN fs
        /\ LastCall.asked \notin DOMAIN fs => LastCall.got = LastCall.asked
        /\ LastCall.asked \in DOMAIN fs =>
               \E k \in 1..Cardinality(DOMAIN fs) :
                   /\ LastCall.got = Suffixed(LastCall.asked, k)
                   /\ \A j \in 1..(k - 1) : Suffixed(LastCall.asked, j) \in DOMAIN fs

EarlierCalls(k) ==
    Cardinality({j \in 1..(k - 1) : returned[j].asked = returned[k].asked})

NthName(asked, n) == IF n = 0 THEN asked ELSE Suffixed(asked, n)

C5_Distinct ==
    \A j, k \in 1..Len(returned) : j # k => returned[j].got # returned[k].got

C5_InOrder ==
    \A k \in 1..Len(returned) :
        returned[k].got = NthName(returned[k].asked, EarlierCalls(k))

C5_ProbeBounded ==
    \A p \in Procs :
        pc[p] = "probe" =>
            /\ dest_path[p] \in DOMAIN fs
            /\ \A j \in 1..(i[p] - 1) : Suffixed(dest_path[p], j) \in DOMAIN fs
            /\ i[p] <= Cardinality(InDest(fs))

\* the probe loop ends with a returned path
C5_Terminates == (pc[1] = "probe") ~> (pc[1] = "copy")

\* C5 as stated: every returned path is free, is the least free candidate,
\* the n-th request for one name returns the name with suffix n-1, and the
\* probe loop terminates.
C5_AsStated ==
    /\ [](C5_Distinct /\ C5_InOrder /\ C5_ProbeBounded)
    /\ [][C5_Call]_vars
    /\ C5_Terminates

\* C5 as amended: the same, with the order of the returned names claimed
\* only when none of them was occupied before the first call.
C5_InOrderWhenFree ==
    \A k \in 1..Len(returned) :
        (\A n \in 0..EarlierCalls(k) : NthName(returned[k].asked, n) \notin DOMAIN fs0) =>
            returned[k].got = NthName(returned[k].asked, EarlierCalls(k))

\* C5 as amended: every returned path is free and is the least free
\* candidate, returned paths are pairwise distinct, the n-th request returns
\* suffix n-1 when those names were free at the start, and the probe loop
\* terminates.
C5_UniquePath ==
    /\ [](C5_Distinct /\ C5_InOrderWhenFree /\ C5_ProbeBounded)
    /\ [][C5_Call]_vars
    /\ C5_Terminates

C5_Witness ==
    /\ Len(returned) >= 3
    /\ returned[1].asked = returned[2].asked /\ returned[1].asked = returned[3].asked
    /\ \A n \in 0..2 : NthName(returned[1].asked, n) \notin DOMAIN fs0
    /\ returned[1].got = returned[1].asked
    /\ returned[2].got = Suffixed(returned[1].asked, 1)
    /\ returned[3].got = Suffixed(returned[1].asked, 2)
    /\ i[1] = 2

\* C6: with --exif, whatever the metadata write does, update_exif_datetime
\* returns a boolean and raises nothing, the file is counted as copied and the
\* run goes on; the final counts are those the source alone determines.
C6_Step ==
    \A p \in Procs :
        pc[p] = "exif" =>
            /\ pc'[p] = "files"
            /\ exc'[p] = ""
            /\ updated'[p] \in BOOLEAN
            /\ copied'[p] = copied[p] + 1
            /\ children'[p] = children[p] /\ entries'[p] = entries[p]

C6_Final ==
    \A p \in Procs :
        (pc[p] = "done" /\ args.write_exif) =>
            summary[p] = <<Cardinality(QualifyingFiles(fs0)), Cardinality(RejectedDirs(fs))>>

\* C6: a missing library or a failing metadata write is reported as False,
\* keeps the copied file and its times, still counts the file, and the run
\* goes on to its summary.
C6_BestEffort == []C6_Final /\ [][C6_Step]_vars

C6_Witness ==
    \E p \in Procs :
        /\ pc[p] = "done" /\ args.write_exif /\ env.piexif
        /\ copied[p] >= 1 /\ ~updated[p]

\* C7: when the source is missing or not a directory, main exits at once
\* with a message naming it: nothing is copied, no summary is printed and
\* the filesystem is as it was found.
C7_NoEffect ==
    ~IsDir(fs0, args.source_dir) =>
        /\ fs = fs0
        /\ \A p \in Procs :
               /\ pc[p] \in {"start", "check", "exit"}
               /\ summary[p] = <<>> /\ created[p] = {}
               /\ pc[p] = "exit" => exit_msg[p] = args.source_dir

\* C8: the source tree is only read: nothing under the source directory is
\* created, deleted or changed, and every file written lies directly in the
\* destination directory.
SameBytes(a, b) == a.kind = b.kind /\ a.data = b.data /\ a.exif = b.exif /\ a.whole = b.whole

C8_SourceReadOnly ==
    /\ \A q \in DOMAIN fs \cup DOMAIN fs0 :
           UnderSource(q) =>
               /\ q \in DOMAIN fs /\ q \in DOMAIN fs0
               /\ SameBytes(fs[q], fs0[q])
    /\ \A p \in Procs : \A c \in created[p] : Parent(c.path) = args.dest_dir

\* C9: a failure of the copy or of the timestamp write ends the run at that
\* file: nothing later is processed, that file is not counted, no summary
\* is printed, what was written stays, nothing is retried.
C9_Aborted ==
    \A p \in Procs :
        exc[p] \in {"copy2", "utime"} =>
            /\ pc[p] = "raised"
            /\ summary[p] = <<>>
            /\ copied[p] = Cardinality({c \in created[p] : c.path # out_path[p]})
            /\ \A c \in created[p] :
                   /\ c.path \in DOMAIN fs
                   /\ fs[c.path].whole
                   /\ fs[c.path].data = fs0[Append(Append(args.source_dir, c.folder), c.child)].data
            /\ exc[p] = "utime" <=> out_path[p] \in {c.path : c \in created[p]}

C9_Stays ==
    \A p \in Procs :
        pc[p] = "raised" =>
            /\ pc'[p] = "raised" /\ fs' = fs
            /\ copied'[p] = copied[p] /\ runs'[p] = runs[p]
            /\ entries'[p] = entries[p] /\ children'[p] = children[p]

\* C9: after a failed copy or timestamp write the run has stopped with the
\* exception, printed no summary, and processes nothing further.
C9_FailureAborts == []C9_Aborted /\ [][C9_Stays]_vars

C9_Witness ==
    \E p \in Procs :
        /\ pc[p] = "raised" /\ exc[p] = "utime"
        /\ copied[p] >= 1
        /\ children[p] # {}

\* C10: the destination holds fewer files than it started with plus the
\* copies counted only when two invocations ran and two calls of
\* ensure_unique_path, one by each, returned the same path.
Lost == Cardinality(FilesInDest(fs)) < Cardinality(FilesInDest(fs0)) + ncopied

\* C10: a file copied into the destination is lost (overwritten) only when
\* two invocations ran at the same time; one invocation alone never loses one.
C10_OnlyByRace ==
    Lost =>
        /\ Cardinality(Procs) = 2
        /\ \E j, k \in 1..Len(returned) :
               /\ j < k
               /\ returned[j].by # returned[k].by
               /\ returned[j].got = returned[k].got

C10_Witness ==
    /\ Procs = {1, 2}
    /\ pc[1] = "done" /\ pc[2] = "done"
    /\ out_path[1] = out_path[2]
    /\ copied[1] = 1 /\ copied[2] = 1
    /\ Cardinality(FilesInDest(fs)) = Cardinality(FilesInDest(fs0)) + 1
====
